---- MODULE Spec2Model ----
(***************************************************************************)
(* Model of MCEq/data.py: the tabulated store (HDF5Backend), the           *)
(* interaction graph (Interactions) and the decay graph (Decays).          *)
(*                                                                         *)
(* Python values that the code compares dynamically are sequences of       *)
(* integers: a bare PDG code n is <<n>>, a particle key (pdg, aux) is      *)
(* <<pdg, aux>>.  A bare code and a key are never equal, as in Python.     *)
(* MCEq.misc.info is logging; it has no effect on the modelled state.      *)
(***************************************************************************)
EXTENDS Integers, Sequences, FiniteSets, TLC

VARIABLES cfg, int_iam, int_built, parents, particles, relations, index_d,
          mod_pprod, call, nreg, dec, returned_true, cs, cl, sol

\* returned_true records the (prim_pdg, sec_pdg) for which _set_mod_pprod
\* has returned True
int_vars == <<int_iam, int_built, parents, particles, relations, index_d,
              mod_pprod, nreg, returned_true>>

\* cs is the InteractionCrossSections object, cl the ContinuousLosses object,
\* sol the call of a solver
scalar_vars == <<cs, cl>>

vars == <<cfg, int_iam, int_built, parents, particles, relations, index_d,
          mod_pprod, call, nreg, dec, returned_true, cs, cl, sol>>

----------------------------------------------------------------------------
(* Python values *)

PyInt(n) == <<n>>
PyKey(p, a) == <<p, a>>
IsInt(v) == Len(v) = 1
IsKey(v) == Len(v) = 2

Abs(n) == IF n < 0 THEN -n ELSE n

\* Python 2 ordering: numbers sort before tuples, tuples lexicographically
PyLess(a, b) ==
    IF Len(a) # Len(b) THEN Len(a) < Len(b)
    ELSE IF a[1] # b[1] THEN a[1] < b[1]
    ELSE Len(a) = 2 /\ a[2] < b[2]

RECURSIVE Insert(_, _)
Insert(x, s) ==
    IF s = <<>> THEN <<x>>
    ELSE IF PyLess(Head(s), x) \/ Head(s) = x THEN <<Head(s)>> \o Insert(x, Tail(s))
    ELSE <<x>> \o s

\* sorted(list)
RECURSIVE Sorted(_)
Sorted(s) == IF s = <<>> THEN <<>> ELSE Insert(Head(s), Sorted(Tail(s)))

PyMin(S) == CHOOSE x \in S : \A y \in S : x = y \/ PyLess(x, y)

\* sorted(list(set(...)))
RECURSIVE SortedSet(_)
SortedSet(S) ==
    IF S = {} THEN <<>>
    ELSE LET m == PyMin(S) IN <<m>> \o SortedSet(S \ {m})

Range(s) == {s[i] : i \in 1..Len(s)}

\* s[a:b] with 0-based half-open Python bounds
Slice(s, a, b) == [i \in 1..(b - a) |-> s[a + i]]

RECURSIVE SumSeq(_)
SumSeq(s) == IF s = <<>> THEN 0 ELSE Head(s) + SumSeq(Tail(s))

----------------------------------------------------------------------------
(* Energy grid and matrices *)

\* full grid dimension of the store and the cut window [MinIdx, MaxIdx)
DimFull == 3
MinIdx == 0
MaxIdx == 2
Dim == MaxIdx - MinIdx

\* csr_matrix((data, indices, indptr), shape=(dim_full, dim_full)).toarray()
RECURSIVE SumAt(_, _)
SumAt(data, J) ==
    IF J = {} THEN 0
    ELSE LET j == CHOOSE x \in J : TRUE IN data[j] + SumAt(data, J \ {j})

CsrEntry(data, indices, indptr, r, c) ==
    SumAt(data, {j \in 1..Len(data) :
                    /\ indptr[r] < j /\ j <= indptr[r + 1]
                    /\ indices[j] = c - 1})

\* ...[self._cuts, self.min_idx:self.max_idx]
CsrToArray(data, indices, indptr) ==
    [r \in 1..Dim |-> [c \in 1..Dim |->
        CsrEntry(data, indices, indptr, MinIdx + r, MinIdx + c)]]

\* m * mmat
ElemProd(m, k) == [r \in 1..Dim |-> [c \in 1..Dim |-> m[r][c] * k[r][c]]]

----------------------------------------------------------------------------
(* Dictionaries *)

EmptyMap == <<>>
Put(f, k, v) == [x \in (DOMAIN f) \cup {k} |-> IF x = k THEN v ELSE f[x]]
Drop(f, K) == [x \in (DOMAIN f) \ K |-> f[x]]
\* d.update(e)
Update(d, e) == [x \in (DOMAIN d) \cup (DOMAIN e) |-> IF x \in DOMAIN e THEN e[x] ELSE d[x]]

----------------------------------------------------------------------------
(* The tabulated store: groups of flattened sparse records *)

\* one record of a dataset before flattening
Rec(tup, data, cols, indptr) == [tup |-> tup, data |-> data, cols |-> cols, indptr |-> indptr]

RECURSIVE FlatData(_)
FlatData(recs) == IF recs = <<>> THEN <<>> ELSE Head(recs).data \o FlatData(Tail(recs))

RECURSIVE FlatCols(_)
FlatCols(recs) == IF recs = <<>> THEN <<>> ELSE Head(recs).cols \o FlatCols(Tail(recs))

\* a dataset as the store holds it: attrs tuple_idcs and len_data, the payload
\* mat_data (row 0: values, row 1: column indices) and the index pointers
Dataset(recs) ==
    [tuple_idcs |-> [i \in 1..Len(recs) |-> recs[i].tup],
     len_data   |-> [i \in 1..Len(recs) |-> Len(recs[i].data)],
     mat_data   |-> <<FlatData(recs), FlatCols(recs)>>,
     indptrs    |-> [i \in 1..Len(recs) |-> recs[i].indptr]]

\* three sparsity patterns on the full grid
RecA(tup, a, b) == Rec(tup, <<a, b, 7>>, <<0, 1, 2>>, <<0, 1, 2, 3>>)
RecB(tup, a, b) == Rec(tup, <<a, b>>, <<1, 1>>, <<0, 1, 2, 2>>)
RecC(tup, a)    == Rec(tup, <<a>>, <<0>>, <<0, 0, 1, 1>>)

Sibyll == <<"SIBYLL", "2.3c">>
Qgsjet == <<"QGSJET", "II-04">>
Dpmjet == <<"DPMJET", "III">>
Bogus  == <<"NOMODEL">>

SibyllData == Dataset(<<
    RecA(<<2212, 211>>, 2, 3),
    RecB(<<2212, -211>>, 1, 2),
    RecC(<<2212, 99>>, 5),
    RecB(<<2212, 13>>, 3, 1),
    RecA(<<130, 211>>, 4, 1),
    RecC(<<211, 0, -13, 0>>, 6),
    RecA(<<411, 211>>, 1, 1),
    RecC(<<2112, -211>>, 2) >>)

QgsjetData == Dataset(<<
    RecA(<<2112, 211>>, 3, 2),
    RecB(<<-99, 211>>, 9, 9),
    RecB(<<2212, -211>>, 2, 2),
    RecC(<<-211, 13>>, 4),
    RecA(<<211, 2212>>, 1, 5) >>)

DpmjetData == Dataset(<<
    RecA(<<2212, 211>>, 2, 2),
    RecB(<<2212, -13>>, 1, 3),
    RecC(<<211, 211>>, 3) >>)

EmcaData == Dataset(<<
    RecA(<<22, 11>>, 1, 2),
    RecB(<<11, 22>>, 2, 1),
    RecC(<<11, 11>>, 3) >>)

ModelNames == {Sibyll, Qgsjet, Dpmjet, Bogus}

\* mceq_db['hadronic_interactions']
HadronicInteractions ==
    (Sibyll :> SibyllData) @@ (Qgsjet :> QgsjetData) @@ (Dpmjet :> DpmjetData)

\* 'SIBYLL' in mname
InName(token, mname) == \E i \in 1..Len(mname) : mname[i] = token

equivalences ==
    [SIBYLL |-> (PyInt(130) :> PyInt(310)) @@ (PyInt(3212) :> PyInt(3122))
                @@ (PyInt(-3212) :> PyInt(-3122)),
     QGSJET |-> (PyInt(-2212) :> PyInt(2212)) @@ (PyInt(-2112) :> PyInt(2212))
                @@ (PyInt(-211) :> PyInt(211)) @@ (PyInt(-321) :> PyInt(321))
                @@ (PyInt(130) :> PyInt(321)) @@ (PyInt(310) :> PyInt(321))
                @@ (PyInt(2112) :> PyInt(2212))]

\* config['adv_set']['disabled_particles']
disabled_particles == {10313, 20, 19, 18, 17, 97, 98, 99, 101, 102, 103}

----------------------------------------------------------------------------
(* HDF5Backend._gen_db_dictionary *)

\* a dense matrix object: id is the identity of the array (the dataset it
\* was decoded from and the record number), val its content
MatObj(id, val) == [id |-> id, val |-> val]

GenAcc0 == [index_d |-> EmptyMap, rel |-> EmptyMap, lists |-> <<>>,
            plist |-> {}, read_idx |-> 0, err |-> FALSE]

\* a loop body whose skip of an excluded record leaves the read cursor where
\* it was
GenStep_stuck(ds, eqv, idbase, k, acc) ==
    LET tup == ds.tuple_idcs[k]
        n == ds.len_data[k]
        parent_pdg == IF Len(tup) = 4 THEN PyKey(tup[1], tup[2]) ELSE PyKey(tup[1], 0)
        child_pdg == IF Len(tup) = 4 THEN PyKey(tup[3], tup[4]) ELSE PyKey(tup[2], 0)
        m == CsrToArray(Slice(ds.mat_data[1], acc.read_idx, acc.read_idx + n),
                        Slice(ds.mat_data[2], acc.read_idx, acc.read_idx + n),
                        ds.indptrs[k])
        obj == MatObj(<<idbase, k>>, m)
        fresh == parent_pdg \notin DOMAIN acc.rel
        lid == IF fresh THEN Len(acc.lists) + 1 ELSE acc.rel[parent_pdg]
        lists1 == IF fresh THEN Append(acc.lists, <<child_pdg>>)
                  ELSE [acc.lists EXCEPT ![lid] = Append(@, child_pdg)]
        rel1 == Put(acc.rel, parent_pdg, lid)
        idx1 == Put(acc.index_d, <<parent_pdg, child_pdg>>, obj)
        linked == parent_pdg \in DOMAIN eqv
    IN  IF Len(tup) # 4 /\ Len(tup) # 2 THEN [acc EXCEPT !.err = TRUE]
        ELSE IF Abs(parent_pdg[1]) \in disabled_particles
                \/ Abs(child_pdg[1]) \in disabled_particles
        THEN acc
        ELSE [index_d |-> IF linked
                          THEN Put(idx1, <<eqv[parent_pdg], child_pdg>>, obj)
                          ELSE idx1,
              rel |-> IF linked THEN Put(rel1, eqv[parent_pdg], lid) ELSE rel1,
              lists |-> lists1,
              plist |-> acc.plist \cup {parent_pdg, child_pdg}
                        \cup (IF linked THEN {eqv[parent_pdg]} ELSE {}),
              read_idx |-> acc.read_idx + n,
              err |-> FALSE]

\* the body of the loop over tuple_idcs for record number k (1-based);
\* rel maps a parent to the list object it is bound to, so that the list an
\* equivalent parent shares keeps growing with the original's
GenStep(ds, eqv, idbase, k, acc) ==
    LET tup == ds.tuple_idcs[k]
        n == ds.len_data[k]
        parent_pdg == IF Len(tup) = 4 THEN PyKey(tup[1], tup[2]) ELSE PyKey(tup[1], 0)
        child_pdg == IF Len(tup) = 4 THEN PyKey(tup[3], tup[4]) ELSE PyKey(tup[2], 0)
        m == CsrToArray(Slice(ds.mat_data[1], acc.read_idx, acc.read_idx + n),
                        Slice(ds.mat_data[2], acc.read_idx, acc.read_idx + n),
                        ds.indptrs[k])
        obj == MatObj(<<idbase, k>>, m)
        fresh == parent_pdg \notin DOMAIN acc.rel
        lid == IF fresh THEN Len(acc.lists) + 1 ELSE acc.rel[parent_pdg]
        lists1 == IF fresh THEN Append(acc.lists, <<child_pdg>>)
                  ELSE [acc.lists EXCEPT ![lid] = Append(@, child_pdg)]
        rel1 == Put(acc.rel, parent_pdg, lid)
        idx1 == Put(acc.index_d, <<parent_pdg, child_pdg>>, obj)
        linked == parent_pdg \in DOMAIN eqv
    IN  IF Len(tup) # 4 /\ Len(tup) # 2 THEN [acc EXCEPT !.err = TRUE]
        ELSE IF Abs(parent_pdg[1]) \in disabled_particles
                \/ Abs(child_pdg[1]) \in disabled_particles
        THEN [acc EXCEPT !.read_idx = @ + n]
        ELSE [index_d |-> IF linked
                          THEN Put(idx1, <<eqv[parent_pdg], child_pdg>>, obj)
                          ELSE idx1,
              rel |-> IF linked THEN Put(rel1, eqv[parent_pdg], lid) ELSE rel1,
              lists |-> lists1,
              plist |-> acc.plist \cup {parent_pdg, child_pdg}
                        \cup (IF linked THEN {eqv[parent_pdg]} ELSE {}),
              read_idx |-> acc.read_idx + n,
              err |-> FALSE]

RECURSIVE GenLoop(_, _, _, _, _)
GenLoop(ds, eqv, idbase, k, acc) ==
    IF acc.err \/ k > Len(ds.tuple_idcs) THEN acc
    ELSE GenLoop(ds, eqv, idbase, k + 1, GenStep(ds, eqv, idbase, k, acc))

\* the returned index; parents and particles are sorted lists
GenDbDictionary(ds, eqv, idbase) ==
    LET acc == GenLoop(ds, eqv, idbase, 1, GenAcc0)
    IN  [err |-> acc.err,
         parents |-> SortedSet(DOMAIN acc.rel),
         particles |-> SortedSet(acc.plist),
         relations |-> [p \in DOMAIN acc.rel |-> acc.lists[acc.rel[p]]],
         index_d |-> acc.index_d]

\* HDF5Backend._check_subgroup_exists: TRUE when it raises
UnknownSelection(subgroup, mname) == mname \notin DOMAIN subgroup

\* HDF5Backend.interaction_db; eqv is bound only for the two families, the
\* call with any other valid name fails on the unbound local
\* the injection of the electromagnetic index
MergeEm(int_index, em_index, enable_em) ==
    IF ~enable_em THEN int_index
    ELSE [err |-> int_index.err \/ em_index.err,
          parents |-> Sorted(int_index.parents \o em_index.parents),
          particles |-> SortedSet(Range(int_index.particles)
                                  \cup Range(em_index.particles)),
          relations |-> Update(int_index.relations, em_index.relations),
          index_d |-> Update(int_index.index_d, em_index.index_d)]

InteractionDb(mname, enable_em) ==
    IF UnknownSelection(HadronicInteractions, mname) THEN [err |-> TRUE]
    ELSE IF ~InName("SIBYLL", mname) /\ ~InName("QGSJET", mname) THEN [err |-> TRUE]
    ELSE MergeEm(GenDbDictionary(HadronicInteractions[mname],
                                 IF InName("SIBYLL", mname) THEN equivalences.SIBYLL
                                 ELSE equivalences.QGSJET,
                                 "hadronic"),
                 GenDbDictionary(EmcaData, EmptyMap, "emca"),
                 enable_em)

----------------------------------------------------------------------------
(* The last call and its outcome *)

ZeroMat == [r \in 1..Dim |-> [c \in 1..Dim |-> 0]]
NoMat == MatObj(<<"none", 0>>, ZeroMat)
NoArgs == <<"", 0>>

\* exc is the message of the exception raised, reported the names that
\* _check_subgroup_exists printed before it raised
\* res is "return" (a load that completed), "True"/"False" (the value
\* _set_mod_pprod returned), "matrix" (val is the returned array) or "raise"
Call(op, mname, parent, child, fn, args, res, val) ==
    [op |-> op, mname |-> mname, parent |-> parent, child |-> child,
     fn |-> fn, args |-> args, res |-> res, val |-> val, children |-> <<>>,
     exc |-> "", reported |-> {}]

\* the Decays object: before load it has none of the five attributes
\* (graph records the relations as load left them)
NoDecays == [built |-> FALSE, parents |-> <<>>, particles |-> <<>>,
             relations |-> EmptyMap, index_d |-> EmptyMap, defaultdict |-> FALSE,
             graph |-> EmptyMap]

\* a scalar table before its load
NoTable == [built |-> FALSE, iam |-> <<>>, parents |-> <<>>, index_d |-> EmptyMap]

\* no solver has been called
NoRun == [phase |-> "Idle"]

NoCall == Call("none", <<>>, <<>>, <<>>, "", NoArgs, "none", NoMat)

\* a failed load whose valid names were not printed
Raised_unreported(op, mname, exc, group) ==
    [Call(op, mname, <<>>, <<>>, "", NoArgs, "raise", NoMat) EXCEPT !.exc = exc]

\* what a load that failed leaves as the last call: the names printed by
\* _check_subgroup_exists are those of the group the name was looked up in
Raised(op, mname, exc, group) ==
    [Call(op, mname, <<>>, <<>>, "", NoArgs, "raise", NoMat)
        EXCEPT !.exc = exc,
               !.reported = IF exc = "Unknown selections." THEN DOMAIN group ELSE {}]

\* the exception of a backend call that failed: that of
\* _check_subgroup_exists when the name is not in the group
LoadExc(group, mname) ==
    IF UnknownSelection(group, mname) THEN "Unknown selections." ELSE "Exception"

----------------------------------------------------------------------------
(* Interactions.load *)

\* MCEq.misc.is_charm_pdgid
is_charm_pdgid(pdgid) ==
    \/ (Abs(pdgid) > 400 /\ Abs(pdgid) < 500)
    \/ (Abs(pdgid) > 4000 /\ Abs(pdgid) < 5000)

\* the parents left by the four list comprehensions, in their order
LoadParents(index_parents, parent_list, c) ==
    LET p1 == IF parent_list.given
              THEN SelectSeq(index_parents, LAMBDA p : p \in parent_list.list)
              ELSE index_parents
        p2 == IF c.disable_charm_pprod
              THEN SelectSeq(p1, LAMBDA p : ~is_charm_pdgid(p[1]))
              ELSE p1
        p3 == IF c.disable_interactions_of_unstable
              THEN SelectSeq(p2, LAMBDA p : p[1] \notin {2212, 2112, -2212, -2112})
              ELSE p2
        p4 == IF c.allowed_projectiles # {}
              THEN SelectSeq(p3, LAMBDA p : p \in c.allowed_projectiles)
              ELSE p3
    IN  p4

regenerate_index(parent_list, c) ==
    \/ parent_list.given
    \/ c.disable_charm_pprod
    \/ c.disable_interactions_of_unstable
    \/ c.allowed_projectiles # {}

\* the relations left by the regeneration loop
PruneRelations(rels, pars) == Drop(rels, {p \in DOMAIN rels : p \notin Range(pars)})

\* the particles collected by the regeneration loop
CollectParticles(rels) ==
    SortedSet(UNION {{p} \cup Range(rels[p]) : p \in DOMAIN rels})

\* the direct-lepton hotfix
StripDirectLeptons(rels) ==
    [p \in DOMAIN rels |->
        SelectSeq(rels[p], LAMBDA ch : ~(10 < Abs(ch[1]) /\ Abs(ch[1]) < 20))]

\* the index interaction_db returns for each model name and setting of
\* config['enable_em']
IndexOf == [mname \in ModelNames, em \in BOOLEAN |-> InteractionDb(mname, em)]

\* Interactions.load on the index the backend returned
LoadIndex(index, interaction_model, parent_list) ==
    LET regen == regenerate_index(parent_list, cfg)
        pars == LoadParents(index.parents, parent_list, cfg)
        rels == IF regen THEN PruneRelations(index.relations, pars)
                ELSE index.relations
        strip == cfg.disable_direct_leptons \/ InName("DPMJET", interaction_model)
    IN  /\ int_iam' = interaction_model
        /\ IF index.err
           THEN /\ call' = Raised("load", interaction_model,
                                  LoadExc(HadronicInteractions, interaction_model),
                                  HadronicInteractions)
                /\ UNCHANGED <<int_built, parents, particles, relations, index_d>>
           ELSE /\ call' = Call("load", interaction_model, <<>>, <<>>, "", NoArgs,
                                "return", NoMat)
                /\ int_built' = TRUE
                /\ parents' = pars
                /\ particles' = IF regen THEN CollectParticles(rels)
                                ELSE index.particles
                /\ relations' = IF strip THEN StripDirectLeptons(rels) ELSE rels
                /\ index_d' = index.index_d
        /\ UNCHANGED <<scalar_vars, sol, cfg, mod_pprod, nreg, dec, returned_true>>

\* Interactions.load
Load(interaction_model, parent_list) ==
    LoadIndex(IndexOf[interaction_model, cfg.enable_em], interaction_model, parent_list)

----------------------------------------------------------------------------
(* Interactions._gen_mod_matrix and Interactions._set_mod_pprod *)

\* x_func(xmat, energy_grid.c, *args): the user's functions, given by name;
\* args is (mode, value), the value an even number of half units
XFunc(fname, args) ==
    [r \in 1..Dim |-> [c \in 1..Dim |->
        args[2] + (IF fname = "f" THEN 1 ELSE 2) + (IF args[1] = "a" THEN 0 ELSE c)]]

\* modmat[np.tril_indices(d, -1)] = 0.
gen_mod_matrix(fname, args) ==
    LET modmat == XFunc(fname, args)
    IN  [r \in 1..Dim |-> [c \in 1..Dim |-> IF r > c THEN 0 ELSE modmat[r][c]]]

\* 0.5 * v
Half(v) == v \div 2

\* mpli[t], which creates the empty entry when t is absent
Vivify(mp, t) == IF t \in DOMAIN mp THEN mp ELSE Put(mp, t, EmptyMap)

\* mpli[t][key] = mat
SetEntry(mp, t, key, mat) == Put(mp, t, Put(Vivify(mp, t)[t], key, mat))

RECURSIVE SetEntries(_, _, _, _)
SetEntries(mp, ts, key, mat) ==
    IF ts = <<>> THEN mp
    ELSE SetEntries(SetEntry(mp, Head(ts), key, mat), Tail(ts), key, mat)

Neg(v) == PyInt(-v[1])
Sign(n) == IF n < 0 THEN -1 ELSE IF n > 0 THEN 1 ELSE 0

Outcome(res, mp) == [res |-> res, mp |-> mp]

\* (x_func.__name__, args) in mpli[pstup]
AlreadyRegistered(entries, fname, args) == <<fname, args>> \in DOMAIN entries

\* (the test with the index of the value in place of the index of the mode)
SameModeRegistered_value(entries, fname, args) ==
    \E k \in DOMAIN entries : k[1] = fname /\ k[2][2] = args[2]

\* some (xf_name, fargs) has xf_name == x_func.__name__ and fargs[0] == args[0]
SameModeRegistered(entries, fname, args) ==
    \E k \in DOMAIN entries : k[1] = fname /\ k[2][1] = args[1]

\* prim_pdg, symm_pdg = 2212, 2112 and the branch prim_pdg == 2112 that
\* follows it, which tests the value just assigned
IsospinPair(prim_arg) ==
    LET prim_pdg == PyInt(2212)
        symm_pdg == PyInt(2112)
    IN  IF prim_pdg = PyInt(2112) THEN <<PyInt(2112), PyInt(2212)>>
        ELSE <<prim_pdg, symm_pdg>>

\* (the companion without the charge conjugation)
PionCompanion_same_sign(symm_pdg, sec_pdg) == <<symm_pdg, sec_pdg>>

\* the channel that receives the same modification as (prim, +-211)
PionCompanion(symm_pdg, sec_pdg) == <<symm_pdg, Neg(sec_pdg)>>

\* the argument of the neutral-kaon modification; others holds the keys of
\* mpli[(prim_pdg, -sec_pdg)], or is empty when that channel is absent.
\* A key whose name equals args[0] makes 0.5 * (args[1] + arg_val) add a
\* number and a tuple, which raises
K0Arg(args, others) ==
    IF \E key \in others : key[1] = args[1] THEN [raise |-> TRUE, arg |-> args]
    ELSE [raise |-> FALSE, arg |-> <<args[1], Half(args[2])>>]

\* the part of _set_mod_pprod after `if not config['use_isospin_sym']`;
\* mp already holds kmat under (prim_arg, sec_pdg)
IsospinPart(mp, prim_arg, sec_pdg, fname, args, kmat, built, pars) ==
    LET prim_pdg == IsospinPair(prim_arg)[1]
        symm_pdg == IsospinPair(prim_arg)[2]
        iso == <<"isospin", args>>
        anti == <<prim_pdg, Neg(sec_pdg)>>
        half_arg == <<args[1], Half(args[2])>>
    IN  IF ~IsInt(sec_pdg) THEN Outcome("raise", mp)
        ELSE IF Abs(sec_pdg[1]) = 211 THEN
            LET mp1 == SetEntry(mp, PionCompanion(symm_pdg, sec_pdg), iso, kmat)
            IN  IF ~built THEN Outcome("raise", mp1)
                ELSE IF ~(\E u \in {221, 223, 333} : PyInt(u) \in Range(pars))
                THEN Outcome("True", mp1)
                \* with (prim_pdg, -sec_pdg) present unflv_arg is either left
                \* None or computed from a number plus a tuple
                ELSE IF anti \in DOMAIN mp1 THEN Outcome("raise", mp1)
                ELSE Outcome("True",
                       SetEntries(mp1,
                         << <<prim_pdg, PyInt(221)>>, <<prim_pdg, PyInt(223)>>,
                            <<prim_pdg, PyInt(333)>>, <<symm_pdg, PyInt(221)>>,
                            <<symm_pdg, PyInt(223)>>, <<symm_pdg, PyInt(333)>> >>,
                         <<"isospin", half_arg>>, gen_mod_matrix(fname, half_arg)))
        ELSE IF Abs(sec_pdg[1]) = 321 THEN
            LET mp1 == SetEntry(mp, <<symm_pdg, sec_pdg>>, iso, kmat)
                k0 == K0Arg(args, IF anti \in DOMAIN mp1 THEN DOMAIN mp1[anti] ELSE {})
            IN  IF k0.raise THEN Outcome("raise", mp1)
                ELSE Outcome("True",
                       SetEntries(mp1,
                         << <<prim_pdg, PyInt(310)>>, <<prim_pdg, PyInt(130)>>,
                            <<symm_pdg, PyInt(310)>>, <<symm_pdg, PyInt(130)>> >>,
                         <<"isospin", k0.arg>>, gen_mod_matrix(fname, k0.arg)))
        ELSE IF Abs(sec_pdg[1]) = 411 THEN
            LET ssec == Sign(sec_pdg[1])
            IN  Outcome("True",
                  SetEntries(mp,
                    << <<prim_pdg, PyInt(ssec * 421)>>, <<prim_pdg, PyInt(ssec * 431)>>,
                       <<symm_pdg, sec_pdg>>, <<symm_pdg, PyInt(ssec * 421)>>,
                       <<symm_pdg, PyInt(ssec * 431)>> >>,
                    iso, kmat))
        ELSE IF PyInt(Abs(sec_pdg[1])) = prim_pdg
        THEN Outcome("True", SetEntry(mp, <<symm_pdg, symm_pdg>>, iso, kmat))
        ELSE IF PyInt(Abs(sec_pdg[1])) = symm_pdg
        THEN Outcome("True", SetEntry(mp, <<symm_pdg, prim_pdg>>, iso, kmat))
        ELSE Outcome("raise", mp)

\* (the method without its two early returns)
set_mod_pprod_unchecked(mp, prim_pdg, sec_pdg, fname, args, c, built, pars) ==
    LET pstup == <<prim_pdg, sec_pdg>>
        kmat == gen_mod_matrix(fname, args)
        mp2 == SetEntry(Vivify(mp, pstup), pstup, <<fname, args>>, kmat)
    IN  IF c.use_isospin_sym /\ prim_pdg \notin {PyInt(2212), PyInt(2112)}
        THEN Outcome("raise", mp)
        ELSE IF ~c.use_isospin_sym THEN Outcome("True", mp2)
        ELSE IsospinPart(mp2, prim_pdg, sec_pdg, fname, args, kmat, built, pars)

\* Interactions._set_mod_pprod: the value returned and the registry left
set_mod_pprod(mp, prim_pdg, sec_pdg, fname, args, c, built, pars) ==
    LET pstup == <<prim_pdg, sec_pdg>>
        mp1 == Vivify(mp, pstup)
        kmat == gen_mod_matrix(fname, args)
        mp2 == SetEntry(mp1, pstup, <<fname, args>>, kmat)
    IN  IF c.use_isospin_sym /\ prim_pdg \notin {PyInt(2212), PyInt(2112)}
        THEN Outcome("raise", mp)
        ELSE IF AlreadyRegistered(mp1[pstup], fname, args) THEN Outcome("False", mp1)
        ELSE IF SameModeRegistered(mp1[pstup], fname, args) THEN Outcome("False", mp1)
        ELSE IF ~c.use_isospin_sym THEN Outcome("True", mp2)
        ELSE IsospinPart(mp2, prim_pdg, sec_pdg, fname, args, kmat, built, pars)

----------------------------------------------------------------------------
(* Interactions.get_matrix *)

\* the column window [ie - 30, ie) of the leading-particle veto
ie == 50

\* np.sum(m[:, ie - 30:ie])
WindowSum(m) ==
    SumSeq([r \in 1..Dim |->
        SumSeq(Slice(m[r], IF ie - 30 < Dim THEN ie - 30 ELSE Dim,
                           IF ie < Dim THEN ie ELSE Dim))])

\* the outcomes of get_matrix: the loop over the registered factors returns
\* on the first item of the dictionary, whose order is not the order of
\* registration, so every registered factor is a possible first item
GetMatrixOutcomes(parent, child) ==
    IF ~int_built THEN {[res |-> "raise", val |-> NoMat]}
    ELSE IF parent \notin DOMAIN relations THEN {[res |-> "raise", val |-> NoMat]}
    ELSE IF child \notin Range(relations[parent]) THEN {[res |-> "raise", val |-> NoMat]}
    ELSE IF cfg.disable_leading_mesons /\ ~IsInt(child)
    THEN {[res |-> "raise", val |-> NoMat]}
    ELSE
      LET m0 == index_d[<<parent, child>>]
          veto == /\ cfg.disable_leading_mesons
                  /\ Abs(child[1]) < 2000
                  /\ <<parent, Neg(child)>> \in DOMAIN index_d
          m == IF veto /\ WindowSum(m0.val)
                          - WindowSum(index_d[<<parent, Neg(child)>>].val) > 0
               THEN index_d[<<parent, Neg(child)>>]
               ELSE m0
          pc == <<parent, child>>
      IN  IF pc \in DOMAIN mod_pprod /\ DOMAIN mod_pprod[pc] # {}
          THEN {[res |-> "matrix", val |-> MatObj(<<"derived", 0>>, ElemProd(m.val, mod_pprod[pc][key]))] :
                    key \in DOMAIN mod_pprod[pc]}
          ELSE {[res |-> "matrix", val |-> m]}

\* get_matrix with m *= mmat in place of m * mmat
GetMatrix_inplace(parent, child) ==
    /\ \E out \in GetMatrixOutcomes(parent, child) :
          /\ call' = Call("get_matrix", <<>>, parent, child, "", NoArgs, out.res, out.val)
          /\ index_d' = IF out.res = "matrix"
                        THEN Put(index_d, <<parent, child>>,
                                 MatObj(index_d[<<parent, child>>].id, out.val.val))
                        ELSE index_d
    /\ UNCHANGED <<scalar_vars, sol, cfg, int_iam, int_built, parents, particles, relations,
                   mod_pprod, nreg, returned_true, dec>>

\* Interactions.get_matrix
GetMatrix(parent, child) ==
    /\ \E out \in GetMatrixOutcomes(parent, child) :
          call' = Call("get_matrix", <<>>, parent, child, "", NoArgs, out.res, out.val)
    /\ UNCHANGED <<scalar_vars, sol, cfg, int_vars, dec>>

----------------------------------------------------------------------------
(* Inputs *)

\* number of _set_mod_pprod calls in a behaviour
MaxReg == 2

Nucleons == {PyInt(2212), PyInt(2112)}
Pions == {PyInt(211), PyInt(-211)}
Kaons == {PyInt(321), PyInt(-321)}

\* the calls of _set_mod_pprod: (prim_pdg, sec_pdg, x_func.__name__, args)
RegInputs ==
    (Nucleons \X (Pions \cup Kaons) \X {"f"} \X {<<"a", 2>>, <<"a", 4>>})
    \cup ({PyInt(2212)} \X {PyInt(211), PyInt(321), PyInt(-321)}
            \X {"f", "g"} \X {<<"f", 2>>})
    \cup ({PyKey(2212, 0)} \X {PyKey(211, 0)} \X {"f"}
            \X {<<"a", 2>>, <<"a", 4>>, <<"f", 2>>})
    \cup { <<ps[1], ps[2], "f", <<"a", 2>> >> :
              ps \in { <<PyInt(211), PyInt(211)>>, <<PyInt(2212), PyInt(13)>>,
                       <<PyInt(2212), PyKey(211, 0)>>, <<PyInt(2212), PyInt(411)>>,
                       <<PyInt(2112), PyInt(2212)>>, <<PyInt(2212), PyInt(-2112)>> } }

GetParents == {PyKey(2212, 0), PyInt(2212), PyKey(3122, 0)}
GetChildren == {PyKey(211, 0), PyInt(211)}

\* get_matrix calls on a filtered graph
LoadGets == {PyKey(2212, 0), PyKey(211, 0)} \X {PyKey(211, 0), PyKey(13, 0)}

NoParentList == [given |-> FALSE, list |-> {}]
ParentLists == {NoParentList,
                [given |-> TRUE, list |-> {PyKey(2212, 0), PyKey(211, 0)}],
                [given |-> TRUE, list |-> {}]}

Config(iso, em, charm, unstable, allowed, leptons, leading) ==
    [use_isospin_sym |-> iso, enable_em |-> em, disable_charm_pprod |-> charm,
     disable_interactions_of_unstable |-> unstable, allowed_projectiles |-> allowed,
     disable_direct_leptons |-> leptons, disable_leading_mesons |-> leading,
     muon_helicity_dependence |-> FALSE, disable_decays |-> {}]

\* mceq_config.config as shipped, but for the two decay options
DecayConfig(helicity, disabled) ==
    [Config(TRUE, TRUE, FALSE, FALSE, {}, FALSE, FALSE)
        EXCEPT !.muon_helicity_dependence = helicity, !.disable_decays = disabled]

\* the values of config['adv_set']['allowed_projectiles']: empty, bare PDG
\* codes as in mceq_config.py, or particle keys
AllowedLists == {{}, {PyInt(2212), PyInt(211)}, {PyKey(2212, 0), PyKey(130, 0)}}

Register(prim_pdg, sec_pdg, fname, args) ==
    /\ nreg < MaxReg
    /\ LET out == set_mod_pprod(mod_pprod, prim_pdg, sec_pdg, fname, args,
                                cfg, int_built, parents)
       IN  /\ mod_pprod' = out.mp
           /\ call' = Call("register", <<>>, prim_pdg, sec_pdg, fname, args,
                           out.res, NoMat)
           /\ returned_true' = IF out.res = "True"
                                THEN returned_true \cup {<<prim_pdg, sec_pdg>>}
                                ELSE returned_true
    /\ nreg' = nreg + 1
    /\ UNCHANGED <<scalar_vars, sol, cfg, int_iam, int_built, parents, particles, relations, index_d, dec>>

InitObjects ==
    /\ int_iam = <<>>
    /\ int_built = FALSE
    /\ parents = <<>>
    /\ particles = <<>>
    /\ relations = EmptyMap
    /\ index_d = EmptyMap
    /\ mod_pprod = EmptyMap
    /\ call = NoCall
    /\ nreg = 0
    /\ returned_true = {}
    /\ dec = NoDecays
    /\ cs = NoTable
    /\ cl = NoTable
    /\ sol = NoRun

\* the interaction graph under the structural filters
InitLoad ==
    /\ cfg \in {Config(TRUE, em, ch, un, al, le, lead) :
                  em \in BOOLEAN, ch \in BOOLEAN, un \in BOOLEAN,
                  al \in AllowedLists, le \in BOOLEAN, lead \in BOOLEAN}
    /\ InitObjects

NextLoad ==
    \/ \E mname \in ModelNames, pl \in ParentLists : Load(mname, pl)
    \/ \E g \in LoadGets : GetMatrix(g[1], g[2])

SpecLoad == InitLoad /\ [][NextLoad]_vars

\* the modification registry of a graph built without structural filters
Init ==
    /\ cfg \in {Config(iso, FALSE, FALSE, FALSE, {}, FALSE, FALSE) :
                  iso \in BOOLEAN}
    /\ InitObjects

Next ==
    \/ \E mname \in {Sibyll, Dpmjet} : Load(mname, NoParentList)
    \/ \E r \in RegInputs : Register(r[1], r[2], r[3], r[4])
    \/ \E p \in GetParents, ch \in GetChildren : GetMatrix(p, ch)

Spec == Init /\ [][Next]_vars

\* queries of a built graph with registered modifications, the
\* leading-particle veto on or off
QueryRegs ==
    {PyKey(2212, 0)} \X {PyKey(211, 0), PyKey(-211, 0)} \X {"f", "g"}
        \X {<<"a", 2>>, <<"a", 4>>}

QueryGets ==
    {PyKey(2212, 0), PyKey(130, 0), PyKey(310, 0)}
        \X {PyKey(211, 0), PyKey(-211, 0), PyKey(321, 0)}

InitQuery ==
    /\ cfg \in {Config(FALSE, FALSE, FALSE, FALSE, {}, FALSE, lead) :
                  lead \in BOOLEAN}
    /\ InitObjects

NextQuery ==
    \/ \E mname \in {Sibyll, Qgsjet} : Load(mname, NoParentList)
    \/ \E r \in QueryRegs : Register(r[1], r[2], r[3], r[4])
    \/ \E g \in QueryGets : GetMatrix(g[1], g[2])

SpecQuery == InitQuery /\ [][NextQuery]_vars

----------------------------------------------------------------------------
(* HDF5Backend.decay_db and the Decays object *)

FullDecays == <<"full_decays">>
TauDecays == <<"tau_decays">>
CustomDecays == <<"custom_decays">>

FullDecaysData == Dataset(<<
    RecA(<<211, -13>>, 5, 5),
    RecB(<<211, 14>>, 2, 3),
    RecA(<<-211, 13>>, 5, 4),
    RecB(<<321, -13>>, 3, 3),
    RecC(<<321, 211>>, 2),
    RecB(<<-321, 13>>, 3, 2),
    RecC(<<13, 11>>, 4),
    RecC(<<15, 98>>, 1) >>)

\* a dataset without the kaon channels
TauDecaysData == Dataset(<<
    RecA(<<15, 211>>, 1, 2),
    RecB(<<211, -13>>, 5, 1),
    RecC(<<-211, 13>>, 5) >>)

\* the helicity-resolved channels
CustomDecaysData == Dataset(<<
    RecA(<<211, 0, -13, 1>>, 2, 1),
    RecB(<<211, 0, -13, -1>>, 3, 4),
    RecC(<<-211, 0, 13, 1>>, 6),
    RecA(<<321, 0, -13, -1>>, 1, 4),
    RecB(<<-321, 0, 13, 1>>, 2, 5),
    RecC(<<13, 1, 11, 0>>, 7),
    RecC(<<13, 0, 11, 0>>, 8) >>)

\* mceq_db['decays']
DecaysGroup ==
    (FullDecays :> FullDecaysData) @@ (TauDecays :> TauDecaysData)
    @@ (CustomDecays :> CustomDecaysData)

DecayNames == {FullDecays, TauDecays, <<"no_decays">>}

\* the channels removed by hand after the merge
Superseded == { <<PyKey(211, 0), PyKey(-13, 0)>>, <<PyKey(-211, 0), PyKey(13, 0)>>,
                <<PyKey(321, 0), PyKey(-13, 0)>>, <<PyKey(-321, 0), PyKey(13, 0)>> }

\* the order in which a dictionary of channels is iterated
PairLess(a, b) == IF a[1] # b[1] THEN PyLess(a[1], b[1]) ELSE PyLess(a[2], b[2])

RECURSIVE ChildrenIn(_, _)
ChildrenIn(keys, parent) ==
    IF keys = {} THEN <<>>
    ELSE LET k == CHOOSE x \in keys : \A y \in keys : x = y \/ PairLess(x, y)
         IN  (IF k[1] = parent THEN <<k[2]>> ELSE <<>>) \o ChildrenIn(keys \ {k}, parent)

\* HDF5Backend.decay_db; defaultdict tells that relations is the
\* auto-creating dictionary the merge leaves behind
\* the index rebuilt from the keys left after the merge
RebuildIndex(index_d1, keys, pars) ==
    [err |-> FALSE,
     parents |-> SortedSet(pars),
     particles |-> SortedSet(pars \cup {k[2] : k \in keys}),
     relations |-> [p \in pars |-> ChildrenIn(keys, p)],
     index_d |-> index_d1,
     defaultdict |-> TRUE]

\* a merge that leaves the superseded channels in the index
MergeHelicity_keep(dec_index, custom_index, helicity) ==
    IF ~helicity THEN dec_index @@ [defaultdict |-> FALSE]
    ELSE IF dec_index.err \/ custom_index.err THEN [err |-> TRUE]
    ELSE RebuildIndex(
            Update(dec_index.index_d, custom_index.index_d),
            DOMAIN Update(dec_index.index_d, custom_index.index_d),
            {k[1] : k \in DOMAIN Update(dec_index.index_d, custom_index.index_d)})

\* the merge of the helicity-resolved channels into the index
MergeHelicity(dec_index, custom_index, helicity) ==
    IF ~helicity THEN dec_index @@ [defaultdict |-> FALSE]
    ELSE IF dec_index.err \/ custom_index.err THEN [err |-> TRUE]
    ELSE IF ~(Superseded \subseteq
                DOMAIN Update(dec_index.index_d, custom_index.index_d))
    THEN [err |-> TRUE]
    ELSE RebuildIndex(
            Drop(Update(dec_index.index_d, custom_index.index_d), Superseded),
            (DOMAIN Update(dec_index.index_d, custom_index.index_d)) \ Superseded,
            {k[1] : k \in (DOMAIN Update(dec_index.index_d, custom_index.index_d))
                            \ Superseded})

DecayDb(decay_dset_name, helicity) ==
    IF UnknownSelection(DecaysGroup, decay_dset_name) THEN [err |-> TRUE]
    ELSE MergeHelicity(
            GenDbDictionary(DecaysGroup[decay_dset_name], EmptyMap, "decays"),
            GenDbDictionary(CustomDecaysData, EmptyMap, "custom"),
            helicity)

DecayIndexOf == [dset \in DecayNames, hel \in BOOLEAN |-> DecayDb(dset, hel)]

RECURSIVE FlatChildren(_, _)
FlatChildren(rels, pars) ==
    IF pars = <<>> THEN {}
    ELSE Range(rels[Head(pars)]) \cup FlatChildren(rels, Tail(pars))

\* Decays.load on the index the backend returned
DecLoadIndex(index, parent_list, decay_dset) ==
    LET listed == parent_list.given /\ parent_list.list # {}
        p0 == SelectSeq(index.parents, LAMBDA p : p \in parent_list.list)
        p1 == IF listed THEN p0 \o SortedSet(FlatChildren(index.relations, p0))
              ELSE index.parents
        p2 == IF cfg.disable_decays # {}
              THEN SelectSeq(p1, LAMBDA p : p[1] \notin cfg.disable_decays)
              ELSE p1
        regen == listed \/ cfg.disable_decays # {}
        rels == IF regen THEN PruneRelations(index.relations, p2) ELSE index.relations
    IN  /\ IF index.err
           THEN /\ call' = Raised("dec_load", decay_dset,
                                  LoadExc(DecaysGroup, decay_dset), DecaysGroup)
                /\ UNCHANGED dec
           ELSE /\ call' = Call("dec_load", decay_dset, <<>>, <<>>, "", NoArgs,
                                "return", NoMat)
                /\ dec' = [built |-> TRUE,
                           parents |-> p2,
                           particles |-> IF regen THEN CollectParticles(rels)
                                         ELSE index.particles,
                           relations |-> rels,
                           index_d |-> index.index_d,
                           defaultdict |-> index.defaultdict,
                           graph |-> rels]
        /\ UNCHANGED <<scalar_vars, sol, cfg, int_vars>>

\* Decays.load
DecLoad(parent_list, decay_dset) ==
    DecLoadIndex(DecayIndexOf[decay_dset, cfg.muon_helicity_dependence],
                 parent_list, decay_dset)

\* Decays.children
DecChildren(parent_pdg) ==
    /\ IF ~dec.built \/ parent_pdg \notin DOMAIN dec.relations
       THEN call' = Call("children", <<>>, parent_pdg, <<>>, "", NoArgs, "raise", NoMat)
       ELSE call' = [Call("children", <<>>, parent_pdg, <<>>, "", NoArgs, "list", NoMat)
                        EXCEPT !.children = dec.relations[parent_pdg]]
    /\ UNCHANGED <<scalar_vars, sol, cfg, int_vars, dec>>

\* Decays.get_matrix; self.relations[parent] creates the entry of an absent
\* parent when relations is the auto-creating dictionary
DecGetMatrix(parent, child) ==
    LET raise == Call("dec_get_matrix", <<>>, parent, child, "", NoArgs, "raise", NoMat)
    IN  /\ IF ~dec.built THEN call' = raise /\ UNCHANGED dec
           ELSE IF parent \notin DOMAIN dec.relations
           THEN /\ call' = raise
                /\ dec' = IF dec.defaultdict
                          THEN [dec EXCEPT !.relations = Put(@, parent, <<>>)]
                          ELSE dec
           ELSE IF child \notin Range(dec.relations[parent])
           THEN call' = raise /\ UNCHANGED dec
           ELSE /\ call' = Call("dec_get_matrix", <<>>, parent, child, "", NoArgs,
                                "matrix", dec.index_d[<<parent, child>>])
                /\ UNCHANGED dec
        /\ UNCHANGED <<scalar_vars, sol, cfg, int_vars>>

DecParentLists == {NoParentList,
                   [given |-> TRUE, list |-> {PyKey(211, 0), PyKey(321, 0)}],
                   [given |-> TRUE, list |-> {PyKey(13, 0)}]}

DisableLists == {{}, {13}, {211, -211}}

DecParents == {PyKey(211, 0), PyKey(13, 0), PyKey(11, 0), PyKey(2212, 0)}
DecChildKeys == {PyKey(-13, 0), PyKey(-13, 1), PyKey(11, 0)}

InitDecay ==
    /\ cfg \in {DecayConfig(hel, dis) : hel \in BOOLEAN, dis \in DisableLists}
    /\ InitObjects

NextDecay ==
    \/ \E pl \in DecParentLists, dset \in DecayNames : DecLoad(pl, dset)
    \/ \E p \in DecParents : DecChildren(p)
    \/ \E p \in DecParents, ch \in DecChildKeys : DecGetMatrix(p, ch)

SpecDecay == InitDecay /\ [][NextDecay]_vars

----------------------------------------------------------------------------
(* HDF5Backend.cs_db, HDF5Backend.continuous_loss_db and the scalar tables *)

\* a cross-section dataset: attrs['projectiles'] and the table, one row per
\* point of the full energy grid, one column per projectile
SibyllCs == [projectiles |-> <<PyInt(2212), PyInt(211), PyInt(321)>>,
             data |-> << <<40, 30, 20>>, <<41, 31, 21>>, <<42, 32, 22>> >>]

QgsjetCs == [projectiles |-> <<PyInt(2212), PyInt(211), PyInt(321), PyInt(2112)>>,
             data |-> << <<50, 35, 25, 51>>, <<52, 36, 26, 53>>, <<54, 37, 27, 55>> >>]

\* a dataset that tabulates the photon as well
DpmjetCs == [projectiles |-> <<PyInt(2212), PyInt(211), PyInt(321), PyInt(22)>>,
             data |-> << <<44, 33, 23, 1>>, <<45, 34, 24, 2>>, <<46, 35, 25, 3>> >>]

\* mceq_db['electromagnetic']['cs']: one row per projectile
EmCs == [projectiles |-> <<PyInt(11), PyInt(-11), PyInt(22)>>,
         data |-> << <<5, 6, 7>>, <<5, 6, 8>>, <<9, 10, 11>> >>]

\* mceq_db['cross_sections']
CrossSections ==
    (Sibyll :> SibyllCs) @@ (Qgsjet :> QgsjetCs) @@ (Dpmjet :> DpmjetCs)

\* the place of p in a list of projectiles
PosOf(lst, p) == CHOOSE i \in 1..Len(lst) : lst[i] = p

\* index_d[p] = cs_data[self._cuts, ip]
CsIndex(ds) ==
    [p \in Range(ds.projectiles) |->
        MatObj(<<"cs", PosOf(ds.projectiles, p)>>,
               [r \in 1..Dim |-> ds.data[MinIdx + r][PosOf(ds.projectiles, p)]])]

\* index_d[p] = em_cs[ip, self._cuts]
EmCsIndex(ds) ==
    [p \in Range(ds.projectiles) |->
        MatObj(<<"em_cs", PosOf(ds.projectiles, p)>>,
               [r \in 1..Dim |-> ds.data[PosOf(ds.projectiles, p)][MinIdx + r]])]

\* the cross sections of the electromagnetic group appended to the index
MergeEmCs(parents0, index_d0, en_em) ==
    IF ~en_em THEN [err |-> FALSE, parents |-> parents0, index_d |-> index_d0]
    ELSE IF \E p \in Range(EmCs.projectiles) : p \in DOMAIN index_d0
    THEN [err |-> TRUE, exc |-> "EM cross sections already in database?"]
    ELSE [err |-> FALSE,
          parents |-> parents0 \o EmCs.projectiles,
          index_d |-> Update(index_d0, EmCsIndex(EmCs))]

\* HDF5Backend.cs_db
CsDb(mname, en_em) ==
    IF UnknownSelection(CrossSections, mname)
    THEN [err |-> TRUE, exc |-> "Unknown selections."]
    ELSE MergeEmCs(CrossSections[mname].projectiles, CsIndex(CrossSections[mname]),
                   en_em)

\* mceq_db['continuous_losses']: per medium, a loss vector on the full grid
\* under the PDG code of each tabulated particle
Air == <<"air">>
Water == <<"water">>
Rock == <<"rock">>

ContinuousLossesGroup ==
    (Air :> ((13 :> <<3, 4, 5>>) @@ (-13 :> <<3, 4, 6>>) @@ (211 :> <<1, 1, 2>>)))
    @@ (Water :> ((13 :> <<6, 7, 8>>) @@ (-13 :> <<6, 7, 9>>)))

\* mceq_db['electromagnetic']['dEdX 11'] and ['dEdX -11']
EmLosses == (11 :> <<2, 2, 3>>) @@ (-11 :> <<2, 3, 3>>)

\* index_d[(int(pstr), hel)] = cl_db[pstr][self._cuts] for hel in [0, 1, -1]
LossIndex(tab, tag) ==
    [k \in {PyKey(p, hel) : p \in DOMAIN tab, hel \in {0, 1, -1}} |->
        MatObj(<<tag, k[1]>>, [r \in 1..Dim |-> tab[k[1]][MinIdx + r]])]

\* the index with the losses of the electromagnetic group added
MergeEmLosses(index_d0, en_em) ==
    IF en_em THEN Update(index_d0, LossIndex(EmLosses, "em_dEdX")) ELSE index_d0

\* sorted(index_d.keys()) and index_d
SortedIndex(index_d0) ==
    [err |-> FALSE, parents |-> SortedSet(DOMAIN index_d0), index_d |-> index_d0]

\* HDF5Backend.continuous_loss_db
ContinuousLossDb(medium, en_em) ==
    IF UnknownSelection(ContinuousLossesGroup, medium)
    THEN [err |-> TRUE, exc |-> "Unknown selections."]
    ELSE SortedIndex(MergeEmLosses(
            LossIndex(ContinuousLossesGroup[medium], "continuous_losses"), en_em))

\* the table a load builds from the index
Table(index, iam) ==
    [built |-> TRUE, iam |-> iam, parents |-> index.parents, index_d |-> index.index_d]

\* InteractionCrossSections.load on the index the backend returned; self.iam
\* is assigned before the backend is asked
CsLoadIndex(index, interaction_model) ==
    /\ IF index.err
       THEN /\ call' = Raised("cs_load", interaction_model, index.exc, CrossSections)
            /\ cs' = [cs EXCEPT !.iam = interaction_model]
       ELSE /\ call' = Call("cs_load", interaction_model, <<>>, <<>>, "", NoArgs,
                            "return", NoMat)
            /\ cs' = Table(index, interaction_model)
    /\ UNCHANGED <<cl, sol, cfg, int_vars, dec>>

\* InteractionCrossSections.load
CsLoad(interaction_model) ==
    CsLoadIndex(CsDb(interaction_model, cfg.enable_em), interaction_model)

\* ContinuousLosses.load_db on the index the backend returned
ClLoadIndex(index, material) ==
    /\ IF index.err
       THEN /\ call' = Raised("load_db", material, index.exc, ContinuousLossesGroup)
            /\ UNCHANGED cl
       ELSE /\ call' = Call("load_db", material, <<>>, <<>>, "", NoArgs,
                            "return", NoMat)
            /\ cl' = Table(index, <<>>)
    /\ UNCHANGED <<cs, sol, cfg, int_vars, dec>>

\* ContinuousLosses.load_db
ClLoad(material) == ClLoadIndex(ContinuousLossDb(material, cfg.enable_em), material)

\* InteractionCrossSections.mbarn2cm2, the factor from mbarn to cm^2; an
\* integer other than 1 stands for the floating-point factor
mbarn2cm2 == 7

\* scale * vector
ScaleVec(scale, v) == [r \in 1..Len(v) |-> scale * v[r]]

\* self.index_d[key] without the unit factor
ScaledEntry_unscaled(tab, key, scale) ==
    IF key \in DOMAIN tab
    THEN [res |-> "vector", val |-> MatObj(<<"derived", 0>>, tab[key].val)]
    ELSE [res |-> "raise", val |-> NoMat]

\* scale * self.index_d[key]: KeyError when key is not tabulated
ScaledEntry(tab, key, scale) ==
    IF key \in DOMAIN tab
    THEN [res |-> "vector", val |-> MatObj(<<"derived", 0>>, ScaleVec(scale, tab[key].val))]
    ELSE [res |-> "raise", val |-> NoMat]

\* np.zeros_like(self.index_d[key])
ZerosLike(tab, key) ==
    IF key \in DOMAIN tab
    THEN [res |-> "vector",
          val |-> MatObj(<<"derived", 0>>, [r \in 1..Len(tab[key].val) |-> 0])]
    ELSE [res |-> "raise", val |-> NoMat]

\* InteractionCrossSections.get_cs; abs(parent) fails on a tuple
get_cs(tab, parent, mbarn) ==
    IF parent \in DOMAIN tab
    THEN ScaledEntry(tab, parent, IF mbarn THEN 1 ELSE mbarn2cm2)
    ELSE IF ~IsInt(parent) THEN [res |-> "raise", val |-> NoMat]
    ELSE IF Abs(parent[1]) \in {411, 421, 431}
    THEN ScaledEntry(tab, PyInt(321), IF mbarn THEN 1 ELSE mbarn2cm2)
    ELSE IF Abs(parent[1]) \in {4332, 4232, 4132}
    THEN ScaledEntry(tab, PyInt(2212), IF mbarn THEN 1 ELSE mbarn2cm2)
    ELSE IF Abs(parent[1]) > 2000 /\ Abs(parent[1]) < 5000
    THEN ScaledEntry(tab, PyInt(2212), IF mbarn THEN 1 ELSE mbarn2cm2)
    ELSE IF 5 < Abs(parent[1]) /\ Abs(parent[1]) < 23
    THEN ZerosLike(tab, PyInt(2212))
    ELSE ScaledEntry(tab, PyInt(211), IF mbarn THEN 1 ELSE mbarn2cm2)

\* a call of get_cs on the object; before the first load there is no object
GetCs(parent, mbarn) ==
    /\ cs.built
    /\ call' = Call("get_cs", <<>>, parent, <<>>, "",
                    <<"mbarn", IF mbarn THEN 1 ELSE 0>>,
                    get_cs(cs.index_d, parent, mbarn).res,
                    get_cs(cs.index_d, parent, mbarn).val)
    /\ UNCHANGED <<scalar_vars, sol, cfg, int_vars, dec>>

\* the parents asked for: tabulated ones, charmed mesons, charmed and other
\* baryons below and above 5000, leptons, the photon, a nucleus and a key
CsParents ==
    {PyInt(n) : n \in {2212, 211, -211, 321, 2112, 411, -421, 431, 4132, 4122,
                       3122, -3122, 5122, 1114, 11, 13, -14, 16, 22, 111, 130,
                       1000020040}}
    \cup {PyKey(2212, 0)}

InitCs ==
    /\ cfg \in {Config(TRUE, em, FALSE, FALSE, {}, FALSE, FALSE) : em \in BOOLEAN}
    /\ InitObjects

NextCs ==
    \/ \E mname \in ModelNames : CsLoad(mname)
    \/ \E p \in CsParents, mbarn \in BOOLEAN : GetCs(p, mbarn)
    \/ \E medium \in {Air, Water, Rock} : ClLoad(medium)

SpecCs == InitCs /\ [][NextCs]_vars

\* the four loaders, each with valid names and a name its group does not have
InitStore ==
    /\ cfg \in {[Config(TRUE, em, FALSE, FALSE, {}, FALSE, FALSE)
                    EXCEPT !.muon_helicity_dependence = hel] :
                  em \in BOOLEAN, hel \in BOOLEAN}
    /\ InitObjects

NextStore ==
    \/ \E mname \in ModelNames : Load(mname, NoParentList)
    \/ \E dset \in DecayNames : DecLoad(NoParentList, dset)
    \/ \E mname \in ModelNames : CsLoad(mname)
    \/ \E medium \in {Air, Water, Rock} : ClLoad(medium)

SpecStore == InitStore /\ [][NextStore]_vars

----------------------------------------------------------------------------
(* solvers.py: solv_numpy, solv_MKL_sparse, CUDASparseContext, solv_CUDA_sparse *)

\* matrix . vector, vector + vector
MatVec(m, v) == [r \in 1..Len(v) |-> SumSeq([c \in 1..Len(v) |-> m[r][c] * v[c]])]
VecAdd(u, v) == [r \in 1..Len(v) |-> u[r] + v[r]]

\* phc + (imc.dot(phc) + dmc.dot(ric[step] * phc)) * dxc[step]
NumpyUpdate(imc, dmc, ri, dx, phc) ==
    VecAdd(phc, ScaleVec(dx, VecAdd(MatVec(imc, phc), MatVec(dmc, ScaleVec(ri, phc)))))

\* mkl_dcsrmv and cusparse csrmv: alpha * a . x + beta * y
Gemv(alpha, a, x, beta, y) == VecAdd(ScaleVec(alpha, MatVec(a, x)), ScaleVec(beta, y))

\* cblas_daxpy: alpha * x + y
Axpy(alpha, x, y) == VecAdd(ScaleVec(alpha, x), y)

\* the words a single-precision routine leaves in a double-precision buffer
Reinterpreted == {-1, 0}

\* cublas saxpy on the device buffers: the single-precision routine on n
\* elements is the update when the buffers hold 32-bit floats; on buffers of
\* 64-bit floats it rewrites the words of the first half of the elements and
\* leaves the second half as it was
Saxpy(fl_pr, alpha, x, y) ==
    IF fl_pr = 32 THEN {Axpy(alpha, x, y)}
    ELSE {[r \in 1..Len(y) |-> IF 2 * r <= Len(y) + 1 THEN g ELSE y[r]] :
            g \in Reinterpreted \cup {Axpy(alpha, x, y)[1]}}

\* delta_phi after the two matrix-vector products of a step
DeltaPhi(int_m, dec_m, ri, phi, delta_phi) ==
    Gemv(ri, dec_m, phi, 1, Gemv(1, int_m, phi, 0, delta_phi))

\* the states a step can leave in the working vector
StepOutcomes(s) ==
    IF s.backend = "numpy"
    THEN {NumpyUpdate(s.int_m, s.dec_m, s.rho_inv[s.step + 1], s.dX[s.step + 1], s.phc)}
    ELSE IF s.backend = "MKL"
    THEN {Axpy(s.dX[s.step + 1],
               DeltaPhi(s.int_m, s.dec_m, s.rho_inv[s.step + 1], s.phc, s.delta_phi),
               s.phc)}
    ELSE Saxpy(s.fl_pr, s.dX[s.step + 1],
               DeltaPhi(s.int_m, s.dec_m, s.rho_inv[s.step + 1], s.phc, s.delta_phi),
               s.phc)

\* the test of a loop that snapshots before the update of the step
Reached_before(grid_idcs, grid_step, step) ==
    /\ Len(grid_idcs) > 0
    /\ grid_step < Len(grid_idcs)
    /\ grid_idcs[grid_step + 1] = step + 1

\* grid_idcs and grid_step < len(grid_idcs) and grid_idcs[grid_step] == step
Reached(grid_idcs, grid_step, step) ==
    /\ Len(grid_idcs) > 0
    /\ grid_step < Len(grid_idcs)
    /\ grid_idcs[grid_step + 1] = step

\* the snapshot store at the start of the loop: an empty list, or for the
\* device context the rows alloc_grid_sol fills with zeros
InitialGridSol(backend, phi, grid_idcs) ==
    IF backend = "CUDA" /\ Len(grid_idcs) > 0
    THEN [k \in 1..Len(grid_idcs) |-> [r \in 1..Len(phi) |-> 0]]
    ELSE <<>>

\* grid_sol.append(np.copy(phc)), or dump_sol of the device context
Snapshot(backend, grid_sol, grid_step, phc) ==
    IF backend = "CUDA" THEN [grid_sol EXCEPT ![grid_step + 1] = phc]
    ELSE Append(grid_sol, phc)

\* the device resources a CUDASparseContext holds once constructed: the
\* cuBLAS handle and the buffers of set_matrices
Acquired(backend) ==
    IF backend = "CUDA" THEN {"cubl_handle", "cu_int_m", "cu_dec_m", "cu_delta_phi"}
    ELSE {}

\* how often the operators have been uploaded once the context is constructed
Uploads(backend) == IF backend = "CUDA" THEN 1 ELSE 0

\* the device-to-host copies of the return: get_phi, and get_gridsol when
\* checkpoints were requested
HostCopies(backend, grid_idcs) ==
    IF backend # "CUDA" THEN 0
    ELSE IF Len(grid_idcs) > 0 THEN 2 ELSE 1

\* the entry of a solver, up to the loop (for CUDA with the construction of
\* the context the call is given: held and uploads are its device resources
\* and the number of operator uploads, to_host the device-to-host copies): phi is the caller's array, phc the
\* working vector (the caller's array itself for numpy, a copy of it for MKL,
\* the device vector for CUDA), phi0 what the caller's array held at the
\* call, hist the working vector after each step
SolvCall(backend, fl_pr, nsteps, dX, rho_inv, int_m, dec_m, phi, grid_idcs) ==
    /\ sol.phase = "Idle"
    /\ sol' = [phase |-> "Running", backend |-> backend, fl_pr |-> fl_pr,
               nsteps |-> nsteps, dX |-> dX, rho_inv |-> rho_inv,
               int_m |-> int_m, dec_m |-> dec_m,
               phi0 |-> phi, phi |-> phi, phc |-> phi,
               delta_phi |-> [r \in 1..Len(phi) |-> 0],
               grid_idcs |-> grid_idcs, grid_step |-> 0, curr_sol_idx |-> 0,
               grid_sol |-> InitialGridSol(backend, phi, grid_idcs),
               step |-> 0, hist |-> <<>>, log |-> <<>>,
               held |-> Acquired(backend), uploads |-> Uploads(backend),
               to_host |-> 0,
               res |-> "none", ret_phi |-> <<>>, ret_sol |-> <<>>]
    /\ UNCHANGED <<scalar_vars, cfg, call, int_vars, dec>>

\* one pass of the loop over xrange(nsteps)
SolvStep ==
    /\ sol.phase = "Running"
    /\ sol.step < sol.nsteps
    /\ \E new \in StepOutcomes(sol) :
        sol' = [sol EXCEPT
                  !.phc = new,
                  !.phi = IF sol.backend = "numpy" THEN new ELSE @,
                  !.delta_phi = IF sol.backend = "numpy" THEN @
                                ELSE DeltaPhi(sol.int_m, sol.dec_m,
                                              sol.rho_inv[sol.step + 1], sol.phc, @),
                  !.hist = Append(@, new),
                  !.grid_sol = IF Reached(sol.grid_idcs, sol.grid_step, sol.step)
                               THEN Snapshot(sol.backend, @, sol.curr_sol_idx, new)
                               ELSE @,
                  !.grid_step = IF Reached(sol.grid_idcs, sol.grid_step, sol.step)
                                THEN @ + 1 ELSE @,
                  !.curr_sol_idx = IF Reached(sol.grid_idcs, sol.grid_step, sol.step)
                                   THEN @ + 1 ELSE @,
                  !.step = @ + 1]
    /\ UNCHANGED <<scalar_vars, cfg, call, int_vars, dec>>

\* a return that does not wait for the end of the loop
SolvReturn_early ==
    /\ sol.phase = "Running"
    /\ sol.step <= sol.nsteps
    /\ sol' = IF sol.nsteps = 0
              THEN [sol EXCEPT !.phase = "Done", !.res = "raise"]
              ELSE [sol EXCEPT !.phase = "Done", !.res = "return",
                               !.log = Append(@, "Performance"),
                               !.ret_phi = sol.phc,
                               !.to_host = @ + HostCopies(sol.backend, sol.grid_idcs),
                               !.ret_sol = IF sol.backend = "CUDA"
                                              /\ Len(sol.grid_idcs) = 0
                                           THEN <<>> ELSE sol.grid_sol]
    /\ UNCHANGED <<scalar_vars, cfg, call, int_vars, dec>>

\* after the loop: the performance message divides by float(nsteps), which
\* raises ZeroDivisionError for nsteps = 0; then the return
SolvReturn ==
    /\ sol.phase = "Running"
    /\ sol.step = sol.nsteps
    /\ sol' = IF sol.nsteps = 0
              THEN [sol EXCEPT !.phase = "Done", !.res = "raise"]
              ELSE [sol EXCEPT !.phase = "Done", !.res = "return",
                               !.log = Append(@, "Performance"),
                               !.ret_phi = sol.phc,
                               !.to_host = @ + HostCopies(sol.backend, sol.grid_idcs),
                               !.ret_sol = IF sol.backend = "CUDA"
                                              /\ Len(sol.grid_idcs) = 0
                                           THEN <<>> ELSE sol.grid_sol]
    /\ UNCHANGED <<scalar_vars, cfg, call, int_vars, dec>>

\* the largest nsteps of a call
MaxSteps == 3

ZeroOp == << <<0, 0>>, <<0, 0>> >>
IdOp == << <<1, 0>>, <<0, 1>> >>

\* pairs (int_m, dec_m): no interaction with unit decay, and a cascade in
\* which the first component feeds the second, which decays
Operators == { <<ZeroOp, IdOp>>,
               << << <<-1, 0>>, <<1, 0>> >>, << <<0, 0>>, <<0, -1>> >> >> }

StepSizes(n) == [1..n -> {1, 2}]
Densities(n) == {[i \in 1..n |-> 1], [i \in 1..n |-> 1 + (i % 2)]}
InitialStates == {<<1, 2>>, <<3, 0>>}

\* lists of checkpoint indices: none, ascending ones of one and two indices,
\* a descending one and one that repeats an index
GridIdcs ==
    {<<>>, <<1, 0>>, <<0, 0>>}
    \cup {<<i>> : i \in 0..MaxSteps}
    \cup {ij \in (0..MaxSteps) \X (1..MaxSteps) : ij[1] < ij[2]}

\* (backend, CUDA_fp_precision)
Backends == {<<"numpy", 64>>, <<"MKL", 64>>, <<"CUDA", 32>>, <<"CUDA", 64>>}

InitSolv ==
    /\ cfg = Config(TRUE, TRUE, FALSE, FALSE, {}, FALSE, FALSE)
    /\ InitObjects

NextSolv ==
    \/ /\ sol.phase = "Idle"
       /\ \E b \in Backends, n \in 0..MaxSteps, ops \in Operators,
             phi \in InitialStates, idcs \in GridIdcs :
             \E dX \in StepSizes(n), rho_inv \in Densities(n) :
                SolvCall(b[1], b[2], n, dX, rho_inv, ops[1], ops[2], phi, idcs)
    \/ SolvStep
    \/ SolvReturn

SpecSolv == InitSolv /\ [][NextSolv]_vars

----------------------------------------------------------------------------
(* Properties of the interaction graph after load *)

ChildrenOfParents(rels, pars) ==
    UNION {Range(rels[p]) : p \in Range(pars) \cap DOMAIN rels}

\* C1: after Interactions.load, under any combination of the structural
\* filters, particles is exactly the surviving parents together with the
\* children that relations lists for them, and every key of relations is a
\* surviving parent.
C1_ParticlesAreParentsAndChildren ==
    int_built =>
        /\ Range(particles) = Range(parents) \cup ChildrenOfParents(relations, parents)
        /\ DOMAIN relations \subseteq Range(parents)

\* the parents of the loaded records that an equivalence rule names
EqSources(eqv, rels) == {k \in DOMAIN rels : PyInt(k[1]) \in DOMAIN eqv}

AliasOf(eqv, k) == PyKey(eqv[PyInt(k[1])][1], k[2])

AliasShares(eqv) ==
    \A k \in EqSources(eqv, relations) :
        LET a == AliasOf(eqv, k)
        IN  /\ a \in Range(parents)
            /\ a \in DOMAIN relations
            /\ relations[a] = relations[k]
            /\ \A ch \in Range(relations[k]) :
                  /\ <<a, ch>> \in DOMAIN index_d
                  /\ index_d[<<a, ch>>].id = index_d[<<k, ch>>].id

\* C2: in a graph built for the SIBYLL or QGSJET family, every parent of
\* the loaded records that the family's equivalence table names has its
\* alias among parents and relations, with the same relation list and, for
\* every child, the very same matrix object.
C2_AliasSharesMatrices ==
    (int_built /\ call.op = "load" /\ call.res = "return") =>
        /\ InName("SIBYLL", call.mname) => AliasShares(equivalences.SIBYLL)
        /\ InName("QGSJET", call.mname) => AliasShares(equivalences.QGSJET)

----------------------------------------------------------------------------
(* Properties of the modification registry *)

\* the particle key a bare PDG code stands for
Canon(v) == IF IsInt(v) THEN PyKey(v[1], 0) ELSE v

SameChannel(t, u) == Canon(t[1]) = Canon(u[1]) /\ Canon(t[2]) = Canon(u[2])

\* a step of _set_mod_pprod; call' holds its arguments and its outcome
RegStep == call'.op = "register" /\ nreg' = nreg + 1

Pstup(c) == <<c.parent, c.child>>
EntriesAt(mp, t) == IF t \in DOMAIN mp THEN mp[t] ELSE EmptyMap

SameNameKeys(mp, c) == {k \in DOMAIN EntriesAt(mp, Pstup(c)) : k[1] = c.fn}

Mirror(nucleon) == IF nucleon = PyInt(2212) THEN PyInt(2112) ELSE PyInt(2212)

\* C7: with isospin symmetry on, a call for a nucleon and a charged pion
\* that returns True leaves the companion entry under the mirrored nucleon:
\* under the proton for a call with the neutron, under the neutron for a
\* call with the proton.
C7_CompanionUnderMirroredParent ==
    [][ ( /\ RegStep
          /\ cfg.use_isospin_sym
          /\ call'.parent \in Nucleons
          /\ call'.child \in Pions
          /\ call'.res = "True" )
        => <<"isospin", call'.args>>
              \in DOMAIN EntriesAt(mod_pprod', <<Mirror(call'.parent), Neg(call'.child)>>) ]_vars

\* the values registered with the first parameter mode for a channel
ValuesAt(mp, t, mode) == {k[2][2] : k \in {x \in DOMAIN EntriesAt(mp, t) : x[2][1] = mode}}

\* C8: with isospin symmetry on, a call for a nucleon and a charged kaon
\* completes, and the neutral-kaon entries it leaves carry the average of
\* the K+ and K- modifications when the opposite-sign channel of that
\* parent is already modified, and half of the value of the call otherwise.
C8_UnflavoredFromAverage ==
    [][ ( /\ RegStep
          /\ cfg.use_isospin_sym
          /\ call'.parent \in Nucleons
          /\ call'.child \in Kaons
          /\ call'.res # "False" )
        => LET other == ValuesAt(mod_pprod, <<call'.parent, Neg(call'.child)>>, call'.args[1])
               k0 == DOMAIN EntriesAt(mod_pprod', <<call'.parent, PyInt(310)>>)
           IN  /\ call'.res = "True"
               /\ IF other = {}
                  THEN <<"isospin", <<call'.args[1], Half(call'.args[2])>> >> \in k0
                  ELSE \E v \in other :
                          <<"isospin", <<call'.args[1], Half(call'.args[2] + v)>> >> \in k0 ]_vars

\* the secondaries for which the code has an isospin relation
IsospinSecondaries == {211, 321, 411, 2212, 2112}

Unsupported(c) ==
    \/ c.parent \notin Nucleons
    \/ ~IsInt(c.child)
    \/ Abs(c.child[1]) \notin IsospinSecondaries

----------------------------------------------------------------------------
(* Properties of the queries *)

\* C10: get_matrix on either graph and children on the decay graph raise
\* for a parent or a channel that the graph load built does not have.
C10_AbsentChannelRaises ==
    /\ (call.op = "get_matrix"
          /\ ~(call.parent \in DOMAIN relations
               /\ call.child \in Range(relations[call.parent])))
        => call.res = "raise"
    /\ (call.op = "dec_get_matrix"
          /\ ~(call.parent \in DOMAIN dec.graph
               /\ call.child \in Range(dec.graph[call.parent])))
        => call.res = "raise"
    /\ (call.op = "children" /\ call.parent \notin DOMAIN dec.graph)
        => call.res = "raise"

\* C11: no query creates an entry: the keys of the decay graph's relations
\* are the ones load left, whatever get_matrix and children calls were made.
C11_QueriesCreateNoEntry ==
    dec.built => DOMAIN dec.relations = DOMAIN dec.graph

\* the key of the antiparticle of a stored key
NegKey(k) == PyKey(-k[1], k[2])

\* C12: for a stored channel (p, c) of a meson c whose mirror (p, -c) is
\* stored too and that has no modification, get_matrix returns the matrix of
\* (p, -c) when the veto is on and the window sum of (p, c) is the greater
\* one, and the matrix of (p, c) otherwise.
C12_LeadingVeto ==
    (/\ call.op = "get_matrix"
     /\ int_built /\ IsKey(call.parent) /\ IsKey(call.child)
     /\ call.parent \in DOMAIN relations
     /\ call.child \in Range(relations[call.parent])
     /\ Abs(call.child[1]) < 2000
     /\ <<call.parent, NegKey(call.child)>> \in DOMAIN index_d
     /\ <<call.parent, call.child>> \notin DOMAIN mod_pprod)
    => /\ call.res = "matrix"
       /\ call.val =
            IF /\ cfg.disable_leading_mesons
               /\ WindowSum(index_d[<<call.parent, call.child>>].val)
                    > WindowSum(index_d[<<call.parent, NegKey(call.child)>>].val)
            THEN index_d[<<call.parent, NegKey(call.child)>>]
            ELSE index_d[<<call.parent, call.child>>]

\* the identities of the stored matrices
StoredIds == {index_d[k].id : k \in DOMAIN index_d}

\* C13: get_matrix reads only: the stored matrices, the relations, the
\* parents, the particles and the modification registry are after the call
\* what they were before it, and a modified result is a new matrix, none of
\* the stored ones.
C13_GetMatrixReadOnly ==
    [][call'.op = "get_matrix"
        => /\ UNCHANGED <<index_d, relations, parents, particles, mod_pprod>>
           /\ (/\ call'.res = "matrix"
               /\ <<call'.parent, call'.child>> \in DOMAIN mod_pprod
               /\ DOMAIN mod_pprod[<<call'.parent, call'.child>>] # {})
              => call'.val.id \notin StoredIds]_vars

\* a modified matrix was returned for a stored channel
C13_Witness ==
    /\ call.op = "get_matrix" /\ call.res = "matrix"
    /\ <<call.parent, call.child>> \in DOMAIN mod_pprod
    /\ call.val.val # index_d[<<call.parent, call.child>>].val

----------------------------------------------------------------------------
(* Properties of the scalar tables *)

\* PDG numbering: leptons are the codes 11 to 18, baryons the four-digit codes
PdgLepton(n) == 11 <= Abs(n) /\ Abs(n) <= 18
PdgBaryon(n) == 1000 <= Abs(n) /\ Abs(n) <= 9999
CharmedMeson(n) == Abs(n) \in {411, 421, 431}

\* the factor selected by the units of the last get_cs call
UnitFactor == IF call.args[2] = 1 THEN 1 ELSE mbarn2cm2

\* the vector tabulated under the PDG code n, times the unit factor
Tabulated(n) == ScaleVec(UnitFactor, cs.index_d[PyInt(n)].val)

ZeroVec == [r \in 1..Dim |-> 0]

\* C14 as stated: get_cs of a PDG code returns the tabulated vector, or for an
\* untabulated code the vector of the kaon for charmed mesons, of the
\* nucleon for every baryon, zero for leptons and the vector of the pion for
\* anything else, each scaled by the unit factor.
C14_FallbackBySpecies ==
    (call.op = "get_cs" /\ IsInt(call.parent))
    => /\ call.res = "vector"
       /\ call.val.val =
            IF call.parent \in DOMAIN cs.index_d THEN Tabulated(call.parent[1])
            ELSE IF CharmedMeson(call.parent[1]) THEN Tabulated(321)
            ELSE IF PdgBaryon(call.parent[1]) THEN Tabulated(2212)
            ELSE IF PdgLepton(call.parent[1]) THEN ZeroVec
            ELSE Tabulated(211)

\* C14 amended: the nucleon vector is the fallback of the untabulated codes
\* with 2000 < |pdg| < 5000 only, and the zero vector that of every
\* untabulated code with 5 < |pdg| < 23, the photon included; the rest as
\* stated.
C14_FallbackByCodeRange ==
    (call.op = "get_cs" /\ IsInt(call.parent))
    => /\ call.res = "vector"
       /\ call.val.val =
            IF call.parent \in DOMAIN cs.index_d THEN Tabulated(call.parent[1])
            ELSE IF CharmedMeson(call.parent[1]) THEN Tabulated(321)
            ELSE IF 2000 < Abs(call.parent[1]) /\ Abs(call.parent[1]) < 5000
            THEN Tabulated(2212)
            ELSE IF 5 < Abs(call.parent[1]) /\ Abs(call.parent[1]) < 23 THEN ZeroVec
            ELSE Tabulated(211)

\* an untabulated charmed baryon was asked for in cm^2
C14_Witness ==
    /\ call.op = "get_cs" /\ call.parent = PyInt(4132) /\ call.args[2] = 0
    /\ call.parent \notin DOMAIN cs.index_d
    /\ call.val.val = ScaleVec(mbarn2cm2, cs.index_d[PyInt(2212)].val)

\* the group of the store a loader looks its name up in
GroupOf(op) ==
    IF op = "load" THEN HadronicInteractions
    ELSE IF op = "dec_load" THEN DecaysGroup
    ELSE IF op = "cs_load" THEN CrossSections
    ELSE ContinuousLossesGroup

LoadOps == {"load", "dec_load", "cs_load", "load_db"}

\* C15: each of the four loads, given a name that its group of the store
\* does not have, raises after the valid names were printed, and no index
\* reaches the object: its parents, particles, relations and index_d stay.
C15_UnknownNameRaises ==
    [][(call'.op \in LoadOps /\ call'.mname \notin DOMAIN GroupOf(call'.op))
        => /\ call'.res = "raise"
           /\ call'.exc = "Unknown selections."
           /\ call'.reported = DOMAIN GroupOf(call'.op)
           /\ call'.reported # {}
           /\ UNCHANGED <<int_built, parents, particles, relations, index_d, dec, cl>>
           /\ cs'.parents = cs.parents /\ cs'.index_d = cs.index_d
           /\ cs'.built = cs.built]_vars

\* a medium without losses was asked for after a load that had succeeded
C15_Witness ==
    /\ call.op = "load_db" /\ call.mname = Rock /\ call.res = "raise"
    /\ call.reported = {Air, Water}
    /\ cl.built /\ cs.built /\ int_built /\ dec.built

----------------------------------------------------------------------------
(* Properties of the solvers *)

\* the checkpoint indices ascend and lie in [0, nsteps)
AscendingInRange(s) ==
    /\ \A k \in 1..Len(s.grid_idcs) : 0 <= s.grid_idcs[k] /\ s.grid_idcs[k] < s.nsteps
    /\ \A k \in 1..(Len(s.grid_idcs) - 1) : s.grid_idcs[k] < s.grid_idcs[k + 1]

\* C16: for ascending checkpoint indices in [0, nsteps), every snapshot taken
\* so far is, and stays, the working vector as it was right after the update
\* of its step, and the sequence returned has one such snapshot per index,
\* in order.
C16_SnapshotAfterStep ==
    (sol.phase # "Idle" /\ AscendingInRange(sol))
    => /\ \A k \in 1..Len(sol.grid_idcs) :
            sol.grid_idcs[k] < sol.step
            => /\ k <= Len(sol.grid_sol)
               /\ sol.grid_sol[k] = sol.hist[sol.grid_idcs[k] + 1]
       /\ sol.backend # "CUDA"
            => Len(sol.grid_sol)
                 = Cardinality({k \in 1..Len(sol.grid_idcs) : sol.grid_idcs[k] < sol.step})
       /\ (sol.phase = "Done" /\ sol.res = "return")
            => /\ Len(sol.ret_sol) = Len(sol.grid_idcs)
               /\ \A k \in 1..Len(sol.grid_idcs) :
                     sol.ret_sol[k] = sol.hist[sol.grid_idcs[k] + 1]

\* two snapshots were returned, the first taken before the last update
C16_Witness ==
    /\ sol.phase = "Done" /\ sol.res = "return" /\ sol.backend = "MKL"
    /\ sol.nsteps = 3 /\ sol.grid_idcs = <<0, 2>>
    /\ Len(sol.ret_sol) = 2
    /\ sol.ret_sol[1] # sol.ret_sol[2]
    /\ sol.ret_sol[2] = sol.ret_phi

\* C17: on every backend the returned snapshot sequence is as long as the
\* number of checkpoint indices the loop reached; a call that reaches fewer
\* than it was asked for returns a sequence shorter than the list of indices.
C17_LengthIsNumberReached ==
    (sol.phase = "Done" /\ sol.res = "return")
    => /\ Len(sol.ret_sol) = sol.grid_step
       /\ sol.grid_step < Len(sol.grid_idcs) => Len(sol.ret_sol) < Len(sol.grid_idcs)

\* the messages a run emits besides its return value
Emitted(s) == {s.log[i] : i \in 1..Len(s.log)}

\* C18: a run that returns fewer snapshots than checkpoint indices were
\* requested has emitted a warning.
C18_ShortResultWarns ==
    (sol.phase = "Done" /\ sol.res = "return" /\ sol.grid_step < Len(sol.grid_idcs))
    => "Warning" \in Emitted(sol)

RECURSIVE Power(_, _)
Power(b, n) == IF n = 0 THEN 1 ELSE b * Power(b, n - 1)

\* the inputs of the integration step law: no interactions, identity decay
\* operator, inverse density 1 and one step size h on every step
StepLawInputs(s, h) ==
    /\ s.int_m = ZeroOp
    /\ s.dec_m = IdOp
    /\ \A i \in 1..s.nsteps : s.rho_inv[i] = 1 /\ s.dX[i] = h

\* C19: under the inputs of the step law the final state returned after
\* nsteps >= 1 steps is the initial state times (1 + h)^nsteps, componentwise.
C19_StepLaw ==
    \A h \in {1, 2} :
        (sol.phase = "Done" /\ sol.res = "return" /\ sol.nsteps >= 1
            /\ StepLawInputs(sol, h))
        => sol.ret_phi = [r \in 1..Len(sol.phi0) |->
                             sol.phi0[r] * Power(1 + h, sol.nsteps)]

\* the working vector of solv_numpy after i steps, as a function of the inputs
RECURSIVE NumpyState(_, _)
NumpyState(s, i) ==
    IF i = 0 THEN s.phi0
    ELSE NumpyUpdate(s.int_m, s.dec_m, s.rho_inv[i], s.dX[i], NumpyState(s, i - 1))

\* the snapshots solv_numpy appends from loop index step on, the cursor at
\* grid_step
RECURSIVE NumpySnapshots(_, _, _)
NumpySnapshots(s, step, grid_step) ==
    IF step >= s.nsteps THEN <<>>
    ELSE IF Reached(s.grid_idcs, grid_step, step)
         THEN <<NumpyState(s, step + 1)>> \o NumpySnapshots(s, step + 1, grid_step + 1)
         ELSE NumpySnapshots(s, step + 1, grid_step)

\* C20: whatever the backend, a call returns the final state and the
\* snapshot sequence that solv_numpy returns for the same inputs, and every
\* step applies the update of solv_numpy.
C20_BackendsAgree ==
    /\ sol.phase # "Idle"
        => \A i \in 1..sol.step : sol.hist[i] = NumpyState(sol, i)
    /\ (sol.phase = "Done" /\ sol.res = "return")
        => /\ sol.ret_phi = NumpyState(sol, sol.nsteps)
           /\ sol.ret_sol = NumpySnapshots(sol, 0, 0)

\* C21: on every backend, when the call returns, the array passed as the
\* initial state holds the final state that is returned.
C21_InitialStateHoldsFinal ==
    (sol.phase = "Done" /\ sol.res = "return") => sol.phi = sol.ret_phi

PhaseRank(phase) ==
    IF phase = "Idle" THEN 0 ELSE IF phase = "Running" THEN 1 ELSE 2

\* the backends whose update is computed in the precision of their buffers
SoundArithmetic(s) == ~(s.backend = "CUDA" /\ s.fl_pr = 64)

\* C22: the phase only moves Idle -> Running -> Done; every step of a run
\* advances the loop index by one, works on the state the step before left
\* (the initial state for step 0) with the step size and density of its own
\* index; the run ends only after step nsteps - 1, having made exactly nsteps
\* updates, and what it returns is the state after the last of them.
C22_ForwardSequential ==
    [][/\ PhaseRank(sol'.phase) >= PhaseRank(sol.phase)
       /\ PhaseRank(sol'.phase) <= PhaseRank(sol.phase) + 1
       /\ (sol.phase = "Idle" /\ sol'.phase = "Running")
            => sol'.step = 0 /\ sol'.hist = <<>> /\ sol'.phc = sol'.phi0
       /\ (sol.phase = "Running" /\ sol'.phase = "Running")
            => /\ sol.step < sol.nsteps
               /\ sol'.step = sol.step + 1
               /\ sol.phc = IF sol.step = 0 THEN sol.phi0 ELSE sol.hist[sol.step]
               /\ sol'.hist = Append(sol.hist, sol'.phc)
               /\ SoundArithmetic(sol)
                    => sol'.phc = NumpyUpdate(sol.int_m, sol.dec_m,
                                              sol.rho_inv[sol.step + 1],
                                              sol.dX[sol.step + 1], sol.phc)
       /\ (sol.phase = "Running" /\ sol'.phase = "Done")
            => /\ sol.step = sol.nsteps
               /\ Len(sol'.hist) = sol.nsteps
               /\ sol'.res = "return" => sol'.ret_phi = sol'.hist[sol.nsteps]]_vars

\* a run of three steps has returned a state that differs from the state
\* after its second step
C22_Witness ==
    /\ sol.phase = "Done" /\ sol.res = "return"
    /\ sol.nsteps = 3 /\ Len(sol.hist) = 3
    /\ sol.hist[2] # sol.hist[3]
    /\ sol.dX[1] # sol.dX[2]

\* a step of the context that leaves none of its device resources held
Teardown == NextSolv /\ sol'.phase = sol.phase /\ sol'.held = {}

\* C23: on the CUDA backend the operators are uploaded once, at construction;
\* the state is copied to the host only at checkpoints and at the return; and
\* a context that holds device resources has a teardown operation that
\* releases all of them.
C23_DeviceResources ==
    (sol.phase # "Idle" /\ sol.backend = "CUDA")
    => /\ sol.uploads = 1
       /\ sol.phase = "Running" => sol.to_host <= sol.grid_step
       /\ sol.held # {} => ENABLED Teardown

----------------------------------------------------------------------------
(* Properties of the record decoding *)

\* the key of record k of a dataset
RecordKey(ds, k) ==
    LET tup == ds.tuple_idcs[k]
    IN  IF Len(tup) = 4 THEN <<PyKey(tup[1], tup[2]), PyKey(tup[3], tup[4])>>
        ELSE <<PyKey(tup[1], 0), PyKey(tup[2], 0)>>

Excluded(key) ==
    Abs(key[1][1]) \in disabled_particles \/ Abs(key[2][1]) \in disabled_particles

\* where the payload of record k starts: the lengths of all records before it
Offset(ds, k) == SumSeq(SubSeq(ds.len_data, 1, k - 1))

\* C24: when Interactions.load has returned, no key of index_d, no parent or
\* child of relations and no particle has a PDG magnitude of the exclusion
\* set, and the matrix of every kept record k of the loaded dataset is decoded
\* from the payload slice of length len_data[k] that starts at the sum of
\* the lengths of all records before it, skipped ones included.
C24_SkippedRecordsKeepOffsets ==
    (call.op = "load" /\ call.res = "return")
    => LET ds == HadronicInteractions[call.mname]
       IN  /\ \A key \in DOMAIN index_d : ~Excluded(key)
           /\ \A p \in DOMAIN relations :
                 /\ Abs(p[1]) \notin disabled_particles
                 /\ \A i \in 1..Len(relations[p]) :
                       Abs(relations[p][i][1]) \notin disabled_particles
           /\ \A i \in 1..Len(particles) : Abs(particles[i][1]) \notin disabled_particles
           /\ \A k \in 1..Len(ds.tuple_idcs) :
                 IF Excluded(RecordKey(ds, k))
                 THEN RecordKey(ds, k) \notin DOMAIN index_d
                 ELSE /\ RecordKey(ds, k) \in DOMAIN index_d
                      /\ index_d[RecordKey(ds, k)].val
                           = CsrToArray(
                               Slice(ds.mat_data[1], Offset(ds, k),
                                     Offset(ds, k) + ds.len_data[k]),
                               Slice(ds.mat_data[2], Offset(ds, k),
                                     Offset(ds, k) + ds.len_data[k]),
                               ds.indptrs[k])

\* a dataset with a skipped record (excluded parent) before kept ones was
\* loaded, and a record after the skipped one has a non-zero matrix
C24_Witness ==
    /\ call.op = "load" /\ call.res = "return" /\ call.mname = Qgsjet
    /\ Excluded(RecordKey(QgsjetData, 2))
    /\ <<PyKey(2212, 0), PyKey(-211, 0)>> \in DOMAIN index_d
    /\ index_d[<<PyKey(2212, 0), PyKey(-211, 0)>>].val # ZeroMat

----------------------------------------------------------------------------
(* Properties of the helicity merge *)

\* what the claim says of the index decay_db returns (merged) for a primary
\* and an override index
MergedAsClaimed(merged, primary, override) ==
    /\ \A key \in DOMAIN override.index_d :
          /\ key \in DOMAIN merged.index_d
          /\ merged.index_d[key] = override.index_d[key]
    /\ \A key \in (DOMAIN primary.index_d) \ (DOMAIN override.index_d \cup Superseded) :
          /\ key \in DOMAIN merged.index_d
          /\ merged.index_d[key] = primary.index_d[key]
    /\ DOMAIN merged.index_d \subseteq DOMAIN primary.index_d \cup DOMAIN override.index_d
    /\ Superseded \cap DOMAIN merged.index_d = {}
    /\ DOMAIN merged.relations = {key[1] : key \in DOMAIN merged.index_d}
    /\ \A p \in DOMAIN merged.relations :
          /\ Range(merged.relations[p])
               = {key[2] : key \in {x \in DOMAIN merged.index_d : x[1] = p}}
          /\ Len(merged.relations[p])
               = Cardinality({x \in DOMAIN merged.index_d : x[1] = p})
    /\ merged.parents = SortedSet(DOMAIN merged.relations)
    /\ merged.particles
         = SortedSet({key[1] : key \in DOMAIN merged.index_d}
                     \cup {key[2] : key \in DOMAIN merged.index_d})

\* C25: when Decays.load has returned with the helicity dependence on, the
\* index it was given by decay_db holds every override channel with the
\* override's matrix, holds none of the four superseded channels, and its
\* relations, parents and particles are those of the keys left in index_d;
\* the object stores that index_d.
C25_HelicityMerge ==
    (call.op = "dec_load" /\ call.res = "return" /\ cfg.muon_helicity_dependence)
    => /\ MergedAsClaimed(DecayIndexOf[call.mname, TRUE],
                          GenDbDictionary(DecaysGroup[call.mname], EmptyMap, "decays"),
                          GenDbDictionary(CustomDecaysData, EmptyMap, "custom"))
       /\ dec.index_d = DecayIndexOf[call.mname, TRUE].index_d

\* the full decays were loaded with the helicity dependence on: a
\* helicity-resolved channel is stored and the unresolved one it supersedes,
\* present in the primary set, is not
C25_Witness ==
    /\ call.op = "dec_load" /\ call.res = "return" /\ cfg.muon_helicity_dependence
    /\ call.mname = FullDecays
    /\ <<PyKey(211, 0), PyKey(-13, 1)>> \in DOMAIN dec.index_d
    /\ <<PyKey(211, 0), PyKey(-13, 0)>> \notin DOMAIN dec.index_d
    /\ <<PyKey(211, 0), PyKey(14, 0)>> \in DOMAIN dec.index_d

----------------------------------------------------------------------------
(* Properties of the load filters *)

\* 10 < abs(c[0]) < 20
DirectLepton(c) == 10 < Abs(c[1]) /\ Abs(c[1]) < 20

NoDirectLeptons(rels) ==
    \A p \in DOMAIN rels : \A i \in 1..Len(rels[p]) : ~DirectLepton(rels[p][i])

\* every lepton child the dataset records for a parent of rels is in its list
DirectLeptonsKept(ds, rels) ==
    \A k \in 1..Len(ds.tuple_idcs) :
        (/\ ~Excluded(RecordKey(ds, k))
         /\ DirectLepton(RecordKey(ds, k)[2])
         /\ RecordKey(ds, k)[1] \in DOMAIN rels)
        => RecordKey(ds, k)[2] \in Range(rels[RecordKey(ds, k)[1]])

\* C26: Interactions.load with a valid name of the DPMJET family returns,
\* and leaves no direct-lepton child in any relation list whatever the
\* toggle; with a name of another family the lepton children are removed
\* exactly when disable_direct_leptons is on.
C26_DpmjetStripAlways ==
    (call.op = "load" /\ call.mname \in DOMAIN HadronicInteractions)
    => IF InName("DPMJET", call.mname)
       THEN call.res = "return" /\ NoDirectLeptons(relations)
       ELSE call.res = "return"
            => IF cfg.disable_direct_leptons THEN NoDirectLeptons(relations)
               ELSE DirectLeptonsKept(HadronicInteractions[call.mname], relations)

NucleonCodes == {2212, 2112, -2212, -2112}

\* C27: when Interactions.load has returned with
\* disable_interactions_of_unstable on, every parent that is left, in the
\* parents list and in the relations, is a nucleon.
C27_OnlyNucleonsInteract ==
    (call.op = "load" /\ call.res = "return" /\ cfg.disable_interactions_of_unstable)
    => /\ \A i \in 1..Len(parents) : parents[i][1] \in NucleonCodes
       /\ \A p \in DOMAIN relations : p[1] \in NucleonCodes

----------------------------------------------------------------------------
(* Properties of the failure cases *)

\* C28: a solver call with nsteps = 0 ends by a return, of the initial state
\* unchanged and an empty snapshot sequence, on every backend.
C28_ZeroStepsReturns ==
    (sol.phase = "Done" /\ sol.nsteps = 0)
    => /\ sol.res = "return"
       /\ sol.ret_phi = sol.phi0
       /\ sol.ret_sol = <<>>

\* C29: a _set_mod_pprod call that raises leaves the registry as it was before
\* the call.
C29_FailedRegistrationNoChange ==
    [][(call'.op = "register" /\ call'.res = "raise") => mod_pprod' = mod_pprod]_vars

\* C30: when Decays.load has returned, every entry of parents is a key of
\* relations and occurs once, and no key of relations has a PDG code of the
\* disable-list.
C30_DecayParentsAreKeys ==
    (call.op = "dec_load" /\ call.res = "return")
    => /\ \A i \in 1..Len(dec.parents) : dec.parents[i] \in DOMAIN dec.relations
       /\ \A i, j \in 1..Len(dec.parents) : dec.parents[i] = dec.parents[j] => i = j
       /\ \A p \in DOMAIN dec.relations : p[1] \notin cfg.disable_decays

====
